---- MODULE Spec2Model ----
(***************************************************************************)
(* Model of the form-submission review tool (src/main.py).                 *)
(*                                                                         *)
(* The worksheet 'Form Responses 1', the 'Authorized Users' sheet, the     *)
(* process-wide st.cache_data cache, the calendar and the reviewer         *)
(* sessions are the state.  One script run of main() is a render; a render *)
(* that reaches update_submission_status continues in two further steps,   *)
(* one per worksheet.update_cell call, so that renders of two sessions     *)
(* interleave the way two script threads do.                               *)
(***************************************************************************)
EXTENDS Integers, Sequences, FiniteSets, TLC

(* ------------------------------ bounds -------------------------------- *)
MaxRows == 1
MaxSheetRows == 3
MaxInserts == 2
MaxDay == 2
MaxTime == 2
MaxQueue == 2

(* --------------------------- field names ------------------------------ *)
EVENT_NAME == "Event Name"
DESCRIPTION == "Description"
EVENT_DATE == "Event Date"
END_DATE == "End Date"
START_TIME == "Start Time"
END_TIME == "End Time"
LOCATION == "Location"
EVENT_TYPE == "Event Type"
ORG_NAME == "Organization Name"
FEE == "Fee"
EMAIL == "Email Address"
STATUS == "Status"
LAST_UPDATED_BY == "Last Updated By"

REQUIRED_FIELDS ==
    <<EVENT_NAME, LOCATION, DESCRIPTION, ORG_NAME, EVENT_TYPE, FEE, EVENT_DATE, EMAIL>>

OPTIONAL_FIELDS == <<START_TIME, END_TIME, END_DATE>>

Pending == ""
Ignored == "Ignored"
AddedToCalendar == "Added to Calendar"

(* ----------------------------- sessions ------------------------------- *)
Sessions == {"s1", "s2"}

\* st.user of each session: display name and e-mail of the identity provider
user ==
    [s \in Sessions |->
        IF s = "s1" THEN [name |-> "Ann", email |-> "ann@x.org"]
                    ELSE [name |-> "Bob", email |-> "bob@x.org"]]

Emails == {user[s].email : s \in Sessions}

VARIABLES
    secrets,     \* st.secrets: which identifiers are configured
    headers,     \* row 1 of 'Form Responses 1'
    sheet,       \* the data rows of 'Form Responses 1', sheet[n] is sheet row n + 1
    authSheet,   \* the Email column of 'Authorized Users'
    dataCache,   \* st.cache_data entry of load_spreadsheet_data
    authCache,   \* st.cache_data entry of get_authorized_users
    calendar,    \* successful events().insert calls per record index
    loggedIn,    \* st.user.is_logged_in of each session
    sel,         \* dataframe_state.selection.rows of each session
    shown,       \* the DataFrame each session's last script run gave to st.dataframe
    job,         \* the part of a script run that is still to execute
    ev,          \* what the last step did (observation only)
    event_data,  \* the field map handed to validate_event_data
    result       \* what validate_event_data / add_event_to_calendar produced

vars ==
    <<secrets, headers, sheet, authSheet, dataCache, authCache, calendar,
      loggedIn, sel, shown, job, ev, event_data, result>>

pureVars == <<event_data, result>>

(* ======================= pure functions of main.py ===================== *)

Letters ==
    {"a", "b", "c", "d", "e", "f", "g", "h", "i", "j", "k", "l", "m",
     "n", "o", "p", "q", "r", "s", "t", "u", "v", "w", "x", "y", "z"}
Digits == {"0", "1", "2", "3", "4", "5", "6", "7", "8", "9"}
LocalChars == Letters \cup Digits \cup {".", "_", "%", "+", "-"}
DomainChars == Letters \cup Digits \cup {".", "-"}
TldMin == 2
TldMax == 6

\* the regular expression ^[A-Za-z0-9._%+-]+@[A-Za-z0-9.-]+\.[A-Za-z]{2,6} matched
\* against the whole of str
FullMatch(str) ==
    \E at \in 1..Len(str), dot \in 1..Len(str) :
        /\ 1 < at
        /\ at + 1 < dot
        /\ str[at] = "@"
        /\ str[dot] = "."
        /\ \A i \in 1..(at - 1) : str[i] \in LocalChars
        /\ \A i \in (at + 1)..(dot - 1) : str[i] \in DomainChars
        /\ \A i \in (dot + 1)..Len(str) : str[i] \in Letters
        /\ Len(str) - dot >= TldMin
        /\ Len(str) - dot <= TldMax

\* re.match(email_pattern, str): anchored at the start; the final $ matches at the
\* end of the string and also just before one trailing newline
email_pattern(str) ==
    \/ FullMatch(str)
    \/ /\ Len(str) > 0
       /\ str[Len(str)] = "\n"
       /\ FullMatch(SubSeq(str, 1, Len(str) - 1))

\* `not event_data.get(field)`: an empty string is falsy, a date object never is
Falsy(field, value) ==
    IF field = EVENT_DATE THEN FALSE
    ELSE IF field = EMAIL THEN value = <<>>
    ELSE value = ""

\* a time widget holds None (<<>>) or a time (<<t>>)
IsNone(t) == t = <<>>

RECURSIVE RequiredErrors(_, _)
RequiredErrors(data, i) ==
    IF i > Len(REQUIRED_FIELDS) THEN <<>>
    ELSE (IF Falsy(REQUIRED_FIELDS[i], data[REQUIRED_FIELDS[i]])
             THEN <<<<"required", REQUIRED_FIELDS[i]>>>>
             ELSE <<>>)
         \o RequiredErrors(data, i + 1)

DateTimeErrorsEqualTimesRejected(data) ==
    IF data[END_DATE] < data[EVENT_DATE] THEN <<<<"end date before event date">>>>
    ELSE IF data[END_DATE] > data[EVENT_DATE] THEN <<>>
    ELSE IF ~IsNone(data[START_TIME]) \/ ~IsNone(data[END_TIME]) THEN
        IF IsNone(data[START_TIME]) THEN <<<<"start time missing">>>>
        ELSE IF IsNone(data[END_TIME]) THEN <<<<"end time missing">>>>
        ELSE IF data[END_TIME][1] <= data[START_TIME][1]
            THEN <<<<"end time before start time">>>>
        ELSE <<>>
    ELSE <<>>

DateTimeErrorsEndTimeOptional(data) ==
    IF data[END_DATE] < data[EVENT_DATE] THEN <<<<"end date before event date">>>>
    ELSE IF data[END_DATE] > data[EVENT_DATE] THEN <<>>
    ELSE IF ~IsNone(data[START_TIME]) \/ ~IsNone(data[END_TIME]) THEN
        IF IsNone(data[START_TIME]) THEN <<<<"start time missing">>>>
        ELSE IF IsNone(data[END_TIME]) THEN <<>>
        ELSE IF data[END_TIME][1] < data[START_TIME][1]
            THEN <<<<"end time before start time">>>>
        ELSE <<>>
    ELSE <<>>

\* the if/elif chain on the date and time fields, errors only
DateTimeErrors(data) ==
    IF data[END_DATE] < data[EVENT_DATE] THEN <<<<"end date before event date">>>>
    ELSE IF data[END_DATE] > data[EVENT_DATE] THEN <<>>
    ELSE IF ~IsNone(data[START_TIME]) \/ ~IsNone(data[END_TIME]) THEN
        IF IsNone(data[START_TIME]) THEN <<<<"start time missing">>>>
        ELSE IF IsNone(data[END_TIME]) THEN <<<<"end time missing">>>>
        ELSE IF data[END_TIME][1] < data[START_TIME][1]
            THEN <<<<"end time before start time">>>>
        ELSE <<>>
    ELSE <<>>

\* the same chain, warnings only
DateTimeWarnings(data) ==
    IF data[END_DATE] < data[EVENT_DATE] THEN <<>>
    ELSE IF data[END_DATE] > data[EVENT_DATE] THEN
        IF ~IsNone(data[START_TIME]) \/ ~IsNone(data[END_TIME])
            THEN <<<<"times ignored for multi-day events">>>>
            ELSE <<>>
    ELSE <<>>

EmailErrors(data) ==
    IF ~email_pattern(data[EMAIL]) THEN <<<<"email not valid", data[EMAIL]>>>> ELSE <<>>

errors(data) == RequiredErrors(data, 1) \o DateTimeErrors(data) \o EmailErrors(data)
warnings(data) == DateTimeWarnings(data)

validate_event_data(data) == ~(Len(errors(data)) > 0)

format_description(data) ==
    <<"<p>", data[DESCRIPTION], "</p>",
      "<p><strong>Submitter:</strong> ", data[ORG_NAME], "<br>",
      "<strong>Event Type:</strong> ", data[EVENT_TYPE], "<br>",
      "<strong>Fee:</strong> ", data[FEE], "<br>",
      "<strong>Email:</strong> ", data[EMAIL], "</p>">>

\* date.isoformat() and time.isoformat()
IsoDate(d) == <<"date", d>>
IsoTime(t) == <<"time", t>>

NoEvent == <<>>

\* lines 290-307: the event body; "raised" when .isoformat() is called on None
build_event(data) ==
    LET base == [summary |-> data[EVENT_NAME],
                 location |-> data[LOCATION],
                 description |-> format_description(data)]
    IN IF IsNone(data[START_TIME]) THEN
           [raised |-> FALSE,
            event |-> <<[base |-> base,
                         start |-> [kind |-> "date", value |-> IsoDate(data[EVENT_DATE]),
                                    timeZone |-> ""],
                         end |-> [kind |-> "date", value |-> IsoDate(data[END_DATE]),
                                  timeZone |-> ""]]>>]
       ELSE IF IsNone(data[END_TIME]) THEN
           [raised |-> TRUE, event |-> NoEvent]
       ELSE
           [raised |-> FALSE,
            event |-> <<[base |-> base,
                         start |-> [kind |-> "dateTime",
                                    value |-> IsoDate(data[EVENT_DATE]) \o <<"T">>
                                              \o IsoTime(data[START_TIME][1]),
                                    timeZone |-> "America/Chicago"],
                         end |-> [kind |-> "dateTime",
                                  value |-> IsoDate(data[END_DATE]) \o <<"T">>
                                            \o IsoTime(data[END_TIME][1]),
                                  timeZone |-> "America/Chicago"]]>>]

add_event_to_calendar_unchecked(data, hasId, insertOk) ==
    LET b == build_event(data)
    IN IF b.raised THEN [outcome |-> "raised", event |-> NoEvent, inserted |-> FALSE]
       ELSE IF insertOk THEN [outcome |-> "true", event |-> b.event, inserted |-> TRUE]
       ELSE [outcome |-> "false", event |-> b.event, inserted |-> FALSE]

\* add_event_to_calendar: outcome "raised", "false" or "true"; inserted tells whether
\* events().insert succeeded.  hasId: calendar_id is in st.secrets; insertOk: the
\* remote call did not fail
add_event_to_calendar(data, hasId, insertOk) ==
    LET b == build_event(data)
    IN IF b.raised THEN [outcome |-> "raised", event |-> NoEvent, inserted |-> FALSE]
       ELSE IF ~hasId THEN [outcome |-> "false", event |-> b.event, inserted |-> FALSE]
       ELSE IF insertOk THEN [outcome |-> "true", event |-> b.event, inserted |-> TRUE]
       ELSE [outcome |-> "false", event |-> b.event, inserted |-> FALSE]

(* ----------------------- field maps of the editor --------------------- *)
TextFields == {EVENT_NAME, LOCATION, DESCRIPTION, ORG_NAME, EVENT_TYPE, FEE}
AllFields == TextFields \cup {EVENT_DATE, END_DATE, START_TIME, END_TIME, EMAIL}

Days == 1..MaxDay
Times == {<<>>} \cup {<<t>> : t \in 1..MaxTime}

GoodEmail == <<"a", "@", "b", ".", "c", "o">>
EmailChoices ==
    {<<>>,
     GoodEmail,
     <<"n", "o", "t", "-", "a", "n", "-", "e", "m", "a", "i", "l">>,
     <<"a", "@", "b", ".", "c">>,
     <<"a", "@", "b", ".", "c", "o", "\n">>}

MakeMap(txt, d1, d2, t1, t2, e) ==
    [f \in AllFields |->
        IF f \in TextFields THEN txt[f]
        ELSE IF f = EVENT_DATE THEN d1
        ELSE IF f = END_DATE THEN d2
        ELSE IF f = START_TIME THEN t1
        ELSE IF f = END_TIME THEN t2
        ELSE e]

AllText(v) == [f \in TextFields |-> v]

\* what a reviewer may leave in the editor in the workflow model
ValidAllDay == MakeMap(AllText("x"), 1, 1, <<>>, <<>>, GoodEmail)
MultiDayStartOnly == MakeMap(AllText("x"), 1, 2, <<1>>, <<>>, GoodEmail)
NameMissing == MakeMap([AllText("x") EXCEPT ![EVENT_NAME] = ""], 1, 1, <<>>, <<>>, GoodEmail)
EditChoices == {ValidAllDay, MultiDayStartOnly, NameMissing}

NoResult ==
    [op |-> "none", valid |-> FALSE, warnings |-> <<>>, outcome |-> "", value |-> <<>>]

(* ========================== data access layer ========================== *)

Terminal == {Ignored, AddedToCalendar}

NoData == [valid |-> FALSE, val |-> <<>>]
NoAuth == [valid |-> FALSE, val |-> {}]

\* list.index(x) + 1: the 1-based column of header x (x is in hdrs)
IndexOf(hdrs, x) == CHOOSE c \in DOMAIN hdrs : hdrs[c] = x /\ \A b \in 1..(c - 1) : hdrs[b] # x

Has(hdrs, x) == \E c \in DOMAIN hdrs : hdrs[c] = x

\* worksheet.update_cell(row_num, col, value) on a data row: sheet row row_num is
\* sh[row_num - 1], the cell is the one under header hdrs[col]
update_cell(hdrs, sh, row_num, col, value) ==
    IF (row_num - 1) \in DOMAIN sh /\ col \in DOMAIN hdrs
        THEN [sh EXCEPT ![row_num - 1] =
                 IF hdrs[col] = STATUS THEN [@ EXCEPT !.status = value]
                 ELSE IF hdrs[col] = LAST_UPDATED_BY THEN [@ EXCEPT !.lub = value]
                 ELSE [@ EXCEPT !.data = value]]
        ELSE sh

row_num_without_header(row_idx) == row_idx + 1

\* row_num = row_idx + 2
row_num(row_idx) == row_idx + 2

\* worksheet.get_all_records(): one record per data row, record i is sheet row i + 2
get_all_records(sh) == sh

KeepRowIgnoredOnly(rec) == rec.status # Ignored

\* ~df['Status'].isin(['Ignored', 'Added to Calendar'])
KeepRow(rec) == ~(rec.status \in {Ignored, AddedToCalendar})

\* df[mask].drop(columns=[Status, Last Updated By]): the kept rows, each under its
\* DataFrame index label (the record index)
RECURSIVE FilterFrom(_, _)
FilterFrom(recs, i) ==
    IF i > Len(recs) THEN <<>>
    ELSE (IF KeepRow(recs[i]) THEN <<[idx |-> i - 1, data |-> recs[i].data]>> ELSE <<>>)
         \o FilterFrom(recs, i + 1)

\* load_spreadsheet_data under @st.cache_data: a valid entry is returned as is; a
\* read that raises ends in st.stop() and stores nothing
load_spreadsheet_data(cache, hdrs, sh, readOk) ==
    IF cache.valid
        THEN [stop |-> FALSE, hit |-> TRUE, ret |-> cache.val, cache |-> cache]
    ELSE IF ~readOk
        THEN [stop |-> TRUE, hit |-> FALSE, ret |-> <<>>, cache |-> cache]
    ELSE IF Len(get_all_records(sh)) = 0
        THEN [stop |-> FALSE, hit |-> FALSE, ret |-> <<>>,
              cache |-> [valid |-> TRUE, val |-> <<>>]]
    ELSE IF ~Has(hdrs, STATUS)
        THEN [stop |-> TRUE, hit |-> FALSE, ret |-> <<>>, cache |-> cache]
    ELSE LET df == FilterFrom(get_all_records(sh), 1)
         IN [stop |-> FALSE, hit |-> FALSE, ret |-> df,
             cache |-> [valid |-> TRUE, val |-> df]]

\* get_authorized_users under @st.cache_data: the except branch returns set(), and
\* that return value is stored like any other
get_authorized_users(cache, emails, readOk) ==
    IF cache.valid THEN [ret |-> cache.val, cache |-> cache]
    ELSE IF readOk THEN [ret |-> emails, cache |-> [valid |-> TRUE, val |-> emails]]
    ELSE [ret |-> {}, cache |-> [valid |-> TRUE, val |-> {}]]

\* [col for col in [Status, Last Updated By] if col not in headers]
missing_cols(hdrs) ==
    (IF Has(hdrs, STATUS) THEN <<>> ELSE <<STATUS>>)
    \o (IF Has(hdrs, LAST_UPDATED_BY) THEN <<>> ELSE <<LAST_UPDATED_BY>>)

first_new_col_zero_based(hdrs) == Len(hdrs)

\* enumerate(missing_cols, start=1 + len(headers)): the column of the first write
first_new_col(hdrs) == 1 + Len(hdrs)

\* worksheet.update_cell(1, col_idx, value) on the header row
update_header(hdrs, col_idx, value) ==
    [c \in 1..(IF col_idx > Len(hdrs) THEN col_idx ELSE Len(hdrs)) |->
        IF c = col_idx THEN value
        ELSE IF c <= Len(hdrs) THEN hdrs[c]
        ELSE ""]

\* the header row after the first n writes of the loop; the columns are counted
\* from the header row read at the start
RECURSIVE add_missing(_, _, _, _)
add_missing(hdrs, first, miss, n) ==
    IF n = 0 THEN hdrs
    ELSE update_header(add_missing(hdrs, first, miss, n - 1), first + n - 1, miss[n])

\* ensure_status_columns; k of the writes succeed, a write that fails raises.
\* "return": nothing is missing; "rerun": every missing column was written, then
\* st.cache_data.clear() and st.rerun(); "raised": a write failed
ensure_status_columns(hdrs, k) ==
    LET miss == missing_cols(hdrs)
    IN IF Len(miss) = 0
           THEN [outcome |-> "return", headers |-> hdrs, cleared |-> FALSE]
       ELSE IF k < Len(miss)
           THEN [outcome |-> "raised", cleared |-> FALSE,
                 headers |-> add_missing(hdrs, first_new_col(hdrs), miss, k)]
       ELSE [outcome |-> "rerun", cleared |-> TRUE,
             headers |-> add_missing(hdrs, first_new_col(hdrs), miss, Len(miss))]

(* ============================== sessions =============================== *)

Idle ==
    [pc |-> "idle", row_idx |-> 0, status |-> "", valid |-> FALSE, cal |-> ""]

Ev(s, stage) == [s |-> s, stage |-> stage]

AddStage(outcome) ==
    IF outcome = "true" THEN "add_true"
    ELSE IF outcome = "false" THEN "add_false"
    ELSE "add_raised"

\* the most data rows the response sheet holds
Capacity == IF MaxQueue > MaxRows THEN MaxQueue ELSE MaxRows

\* record indices of the response sheet
Indices == 0..(Capacity - 1)

RECURSIVE Total(_, _)
Total(cal, n) == IF n = 0 THEN 0 ELSE cal[n - 1] + Total(cal, n - 1)

\* main() from the authorization check to load_spreadsheet_data
Prelude(s, authOk, k, loadOk) ==
    LET au == get_authorized_users(authCache, authSheet, authOk)
        ens == ensure_status_columns(headers, k)
        ld == load_spreadsheet_data(dataCache, headers, sheet, loadOk)
        base == [stage |-> "", auth |-> au.cache, data |-> dataCache,
                 headers |-> headers, list |-> <<>>]
    IN IF ~(user[s].email \in au.ret) THEN [base EXCEPT !.stage = "rejected"]
       ELSE IF ens.outcome = "raised"
           THEN [base EXCEPT !.stage = "ensure_raised", !.headers = ens.headers]
       ELSE IF ens.outcome = "rerun"
           THEN [base EXCEPT !.stage = "ensure_rerun", !.headers = ens.headers,
                             !.auth = NoAuth, !.data = NoData]
       ELSE IF ld.stop THEN [base EXCEPT !.stage = "load_stop"]
       ELSE IF Len(ld.ret) = 0 THEN [base EXCEPT !.stage = "empty", !.data = ld.cache]
       ELSE [base EXCEPT !.stage = "list", !.data = ld.cache, !.list = ld.ret]

\* every widget of a script run that stops before st.dataframe loses its state
Cleared(s) == [sel EXCEPT ![s] = <<>>]

\* ... and the table is no longer on the page
Hidden(s) == [shown EXCEPT ![s] = <<>>]

ProceedAlways(valid) == TRUE

\* `if not validate_event_data(edited_data): st.stop()`
ProceedAfterValidation(valid) == valid

WriteAfterAnyOutcome(outcome) == outcome # "raised"

\* `if add_event_to_calendar(edited_data):` guards the status write
WriteAfterCalendar(outcome) == outcome = "true"

\* st.cache_data.clear() at the end of update_submission_status, reached on success
ClearAfterUpdate(ok) == ok

\* whether a remote call succeeds, for a call that is made at all
Outcomes(called) == IF called THEN BOOLEAN ELSE {TRUE}

\* One script run of main() by a logged-in session with the store configured, past
\* show_header.  click: "select" (the selection becomes p, also a plain rerun),
\* "ignore" or "add" (the button pressed, d being the content of the editor).
\* st.dataframe is given no key, so the element is identified by its arguments, the
\* data among them: the selection the browser holds belongs to the table of the
\* previous run and reaches this run only if this run renders the same data.
ScriptRun(s, click, p, d) ==
    /\ loggedIn[s]
    /\ secrets.spreadsheet_id
    /\ job[s].pc = "idle"
    /\ \E authOk \in Outcomes(~authCache.valid),
          loadOk \in Outcomes(~dataCache.valid),
          insertOk \in Outcomes(click = "add" /\ secrets.calendar_id),
          k \in 0..Len(missing_cols(headers)) :
        LET pre == Prelude(s, authOk, k, loadOk)
            rows == IF pre.list # shown[s] THEN <<>>
                    ELSE IF click = "select" THEN p ELSE sel[s]
        IN /\ authCache' = pre.auth
           /\ dataCache' = pre.data
           /\ headers' = pre.headers
           /\ shown' = [shown EXCEPT ![s] = pre.list]
           /\ UNCHANGED <<secrets, sheet, authSheet, loggedIn, pureVars>>
           /\ IF pre.stage # "list" THEN
                  /\ sel' = Cleared(s)
                  /\ ev' = Ev(s, pre.stage)
                  /\ UNCHANGED <<job, calendar>>
              ELSE IF Len(rows) = 0 THEN
                  /\ sel' = [sel EXCEPT ![s] = rows]
                  /\ ev' = Ev(s, "reviewing")
                  /\ UNCHANGED <<job, calendar>>
              ELSE IF rows[1] + 1 > Len(pre.list) THEN
                  \* submissions.iloc[rows[0]] raises IndexError
                  /\ sel' = [sel EXCEPT ![s] = rows]
                  /\ ev' = Ev(s, "index_error")
                  /\ UNCHANGED <<job, calendar>>
              ELSE
                  LET selected_row == pre.list[rows[1] + 1]
                      valid == validate_event_data(d)
                      r == add_event_to_calendar(d, secrets.calendar_id, insertOk)
                  IN /\ sel' = [sel EXCEPT ![s] = rows]
                     /\ IF ~ProceedAfterValidation(valid) THEN
                            /\ ev' = Ev(s, "invalid")
                            /\ UNCHANGED <<job, calendar>>
                        ELSE IF click = "ignore" THEN
                            /\ job' = [job EXCEPT ![s] =
                                   [pc |-> "update_status", row_idx |-> selected_row.idx,
                                    status |-> Ignored, valid |-> valid, cal |-> ""]]
                            /\ ev' = Ev(s, "ignore")
                            /\ UNCHANGED calendar
                        ELSE IF click = "add" THEN
                            /\ r.inserted => Total(calendar, Capacity) < MaxInserts
                            /\ calendar' = IF r.inserted
                                   THEN [calendar EXCEPT ![selected_row.idx] = @ + 1]
                                   ELSE calendar
                            /\ job' = IF WriteAfterCalendar(r.outcome)
                                   THEN [job EXCEPT ![s] =
                                       [pc |-> "update_status",
                                        row_idx |-> selected_row.idx,
                                        status |-> AddedToCalendar, valid |-> valid,
                                        cal |-> r.outcome]]
                                   ELSE job
                            /\ ev' = Ev(s, AddStage(r.outcome))
                        ELSE
                            /\ ev' = Ev(s, "editing")
                            /\ UNCHANGED <<job, calendar>>

\* the rows a reviewer can select in the table on the page
Positions(s) == {<<>>} \cup {<<i>> : i \in 0..(Len(shown[s]) - 1)}

\* a rerun caused by selecting or deselecting a row of the table, or by an edit
Select(s, p) == ScriptRun(s, "select", p, ValidAllDay)

ClickIgnore(s, d) == ScriptRun(s, "ignore", sel[s], d)

ClickAdd(s, d) == ScriptRun(s, "add", sel[s], d)

\* main() of a session that is not logged in: the 'Log in' button and st.stop()
ClickLogin(s) ==
    /\ ~loggedIn[s]
    /\ loggedIn' = [loggedIn EXCEPT ![s] = TRUE]
    /\ sel' = Cleared(s)
    /\ shown' = Hidden(s)
    /\ ev' = Ev(s, "login")
    /\ UNCHANGED <<secrets, headers, sheet, authSheet, dataCache, authCache, calendar,
                   job, pureVars>>

\* main() with spreadsheet_id missing from st.secrets: st.error and st.stop()
NoSpreadsheetId(s) ==
    /\ loggedIn[s]
    /\ ~secrets.spreadsheet_id
    /\ sel' = Cleared(s)
    /\ shown' = Hidden(s)
    /\ ev' = Ev(s, "no_spreadsheet_id")
    /\ UNCHANGED <<secrets, headers, sheet, authSheet, dataCache, authCache, calendar,
                   loggedIn, job, pureVars>>

\* show_header: the refresh button, st.cache_data.clear() and st.rerun()
ClickRefresh(s) ==
    /\ loggedIn[s]
    /\ secrets.spreadsheet_id
    /\ job[s].pc = "idle"
    /\ dataCache' = NoData
    /\ authCache' = NoAuth
    /\ sel' = Cleared(s)
    /\ shown' = Hidden(s)
    /\ ev' = Ev(s, "refresh")
    /\ UNCHANGED <<secrets, headers, sheet, authSheet, calendar, loggedIn, job, pureVars>>

\* show_header: the 'Log out' button
ClickLogout(s) ==
    /\ loggedIn[s]
    /\ secrets.spreadsheet_id
    /\ job[s].pc = "idle"
    /\ loggedIn' = [loggedIn EXCEPT ![s] = FALSE]
    /\ sel' = Cleared(s)
    /\ shown' = Hidden(s)
    /\ ev' = Ev(s, "logout")
    /\ UNCHANGED <<secrets, headers, sheet, authSheet, dataCache, authCache, calendar,
                   job, pureVars>>

\* update_submission_status up to and including the write of the Status cell
UpdateStatusCell(s) ==
    /\ job[s].pc = "update_status"
    /\ \E ok \in BOOLEAN :
        IF ok /\ Has(headers, STATUS) /\ Has(headers, LAST_UPDATED_BY) THEN
            /\ sheet' = update_cell(headers, sheet, row_num(job[s].row_idx),
                                    IndexOf(headers, STATUS), job[s].status)
            /\ job' = [job EXCEPT ![s].pc = "update_actor"]
            /\ ev' = Ev(s, "status_cell")
        ELSE
            \* an exception before the cell is written: return False
            /\ sheet' = sheet
            /\ job' = [job EXCEPT ![s] = Idle]
            /\ ev' = Ev(s, "update_unwritten")
    /\ UNCHANGED <<secrets, headers, authSheet, dataCache, authCache, calendar,
                   loggedIn, sel, shown, pureVars>>

\* the rest of update_submission_status: the Last Updated By cell, the cache clear
\* and the return value
UpdateActorCell(s) ==
    /\ job[s].pc = "update_actor"
    /\ \E ok \in BOOLEAN :
        /\ sheet' = IF ok
               THEN update_cell(headers, sheet, row_num(job[s].row_idx),
                                IndexOf(headers, LAST_UPDATED_BY), user[s].name)
               ELSE sheet
        /\ dataCache' = IF ClearAfterUpdate(ok) THEN NoData ELSE dataCache
        /\ authCache' = IF ClearAfterUpdate(ok) THEN NoAuth ELSE authCache
        /\ ev' = Ev(s, IF ok THEN "update_true" ELSE "update_false")
    /\ job' = [job EXCEPT ![s] = Idle]
    /\ UNCHANGED <<secrets, headers, authSheet, calendar, loggedIn, sel, shown,
                   pureVars>>

\* ttl=300: an entry of the read cache expires
ExpireData ==
    /\ dataCache.valid
    /\ dataCache' = NoData
    /\ ev' = Ev("", "expire")
    /\ UNCHANGED <<secrets, headers, sheet, authSheet, authCache, calendar, loggedIn,
                   sel, shown, job, pureVars>>

ExpireAuth ==
    /\ authCache.valid
    /\ authCache' = NoAuth
    /\ ev' = Ev("", "expire")
    /\ UNCHANGED <<secrets, headers, sheet, authSheet, dataCache, calendar, loggedIn,
                   sel, shown, job, pureVars>>

\* the form appends a response row; its Status and Last Updated By cells are blank
FormSubmit ==
    /\ Len(sheet) < MaxRows
    /\ sheet' = Append(sheet, [data |-> <<"response", Len(sheet)>>, status |-> Pending,
                               lub |-> ""])
    /\ ev' = Ev("", "form")
    /\ UNCHANGED <<secrets, headers, authSheet, dataCache, authCache, calendar,
                   loggedIn, sel, shown, job, pureVars>>

FormColumns == <<"Timestamp">>

\* what every configuration starts from: an empty response sheet, nothing cached,
\* nobody logged in
Start ==
    /\ headers \in {FormColumns, FormColumns \o <<STATUS>>,
                    FormColumns \o <<STATUS, LAST_UPDATED_BY>>}
    /\ sheet = <<>>
    /\ dataCache = NoData
    /\ authCache = NoAuth
    /\ calendar = [i \in Indices |-> 0]
    /\ loggedIn = [s \in Sessions |-> FALSE]
    /\ sel = [s \in Sessions |-> <<>>]
    /\ shown = [s \in Sessions |-> <<>>]
    /\ job = [s \in Sessions |-> Idle]
    /\ ev = Ev("", "init")
    /\ event_data = ValidAllDay
    /\ result = NoResult

\* one listed reviewer (s1) and one user who is not listed (s2)
Init ==
    /\ secrets \in {[spreadsheet_id |-> TRUE, calendar_id |-> TRUE],
                    [spreadsheet_id |-> TRUE, calendar_id |-> FALSE],
                    [spreadsheet_id |-> FALSE, calendar_id |-> TRUE]}
    /\ authSheet = {user["s1"].email}
    /\ Start

\* two listed reviewers
InitRace ==
    /\ secrets = [spreadsheet_id |-> TRUE, calendar_id |-> TRUE]
    /\ authSheet = Emails
    /\ Start

Steps ==
    \/ \E s \in Sessions : ClickLogin(s)
    \/ \E s \in Sessions : ClickRefresh(s)
    \/ \E s \in Sessions : ClickLogout(s)
    \/ \E s \in Sessions : \E p \in Positions(s) : Select(s, p)
    \/ \E s \in Sessions, d \in EditChoices : ClickIgnore(s, d)
    \/ \E s \in Sessions, d \in EditChoices : ClickAdd(s, d)
    \/ \E s \in Sessions : UpdateStatusCell(s)
    \/ \E s \in Sessions : UpdateActorCell(s)
    \/ ExpireData
    \/ ExpireAuth
    \/ FormSubmit

Next ==
    \/ Steps
    \/ \E s \in Sessions : NoSpreadsheetId(s)

Spec == Init /\ [][Next]_vars

SpecRace == InitRace /\ [][Steps]_vars

(* ------------- the validator and the calendar adapter alone ------------ *)

\* everything but the field map is at rest
AtRest ==
    /\ secrets = [spreadsheet_id |-> TRUE, calendar_id |-> TRUE]
    /\ authSheet = Emails
    /\ headers = FormColumns \o <<STATUS, LAST_UPDATED_BY>>
    /\ sheet = <<>>
    /\ dataCache = NoData
    /\ authCache = NoAuth
    /\ calendar = [i \in Indices |-> 0]
    /\ loggedIn = [s \in Sessions |-> FALSE]
    /\ sel = [s \in Sessions |-> <<>>]
    /\ shown = [s \in Sessions |-> <<>>]
    /\ job = [s \in Sessions |-> Idle]
    /\ ev = Ev("", "init")

workflowVars ==
    <<secrets, headers, sheet, authSheet, dataCache, authCache, calendar, loggedIn,
      sel, shown, job, ev>>

InitPure ==
    /\ AtRest
    /\ \E txt \in [TextFields -> {"", "x"}], d1 \in Days, d2 \in Days,
          t1 \in Times, t2 \in Times, e \in EmailChoices :
        event_data = MakeMap(txt, d1, d2, t1, t2, e)
    /\ result = NoResult

\* main() line 600: validate_event_data(edited_data)
Validate ==
    /\ result.op = "none"
    /\ result' = [NoResult EXCEPT !.op = "validate",
                                  !.valid = validate_event_data(event_data),
                                  !.warnings = warnings(event_data)]
    /\ UNCHANGED <<workflowVars, event_data>>

\* main() line 614: add_event_to_calendar(edited_data), reached with a field map
\* that passed validation
AddEvent ==
    /\ result.op = "validate"
    /\ result.valid
    /\ \E hasId \in BOOLEAN, insertOk \in BOOLEAN :
        LET r == add_event_to_calendar(event_data, hasId, insertOk)
        IN result' = [result EXCEPT !.op = "add", !.outcome = r.outcome,
                                    !.value = r.event]
    /\ UNCHANGED <<workflowVars, event_data>>

NextPure == Validate \/ AddEvent

SpecPure == InitPure /\ [][NextPure]_vars

(* ----------------------- load_spreadsheet_data alone ------------------- *)

Statuses == {Pending, Ignored, AddedToCalendar, "Pending"}

Row(n, st) == [data |-> <<"response", n>>, status |-> st, lub |-> ""]

InitLoad ==
    /\ secrets = [spreadsheet_id |-> TRUE, calendar_id |-> TRUE]
    /\ authSheet = Emails
    /\ headers = FormColumns \o <<STATUS, LAST_UPDATED_BY>>
    /\ \E n \in 0..MaxSheetRows : \E sts \in [1..n -> Statuses] :
        sheet = [i \in 1..n |-> Row(i - 1, sts[i])]
    /\ dataCache = NoData
    /\ authCache = NoAuth
    /\ calendar = [i \in Indices |-> 0]
    /\ loggedIn = [s \in Sessions |-> FALSE]
    /\ sel = [s \in Sessions |-> <<>>]
    /\ shown = [s \in Sessions |-> <<>>]
    /\ job = [s \in Sessions |-> Idle]
    /\ ev = Ev("", "init")
    /\ event_data = ValidAllDay
    /\ result = NoResult

\* main() line 564: submissions = load_spreadsheet_data(spreadsheet_id)
Load ==
    /\ \E readOk \in Outcomes(~dataCache.valid) :
        LET ld == load_spreadsheet_data(dataCache, headers, sheet, readOk)
        IN /\ dataCache' = ld.cache
           /\ result' = [NoResult EXCEPT
                             !.op = IF ld.stop THEN "stop" ELSE IF ld.hit THEN "hit"
                                    ELSE "miss",
                             !.value = ld.ret]
    /\ UNCHANGED <<secrets, headers, sheet, authSheet, authCache, calendar, loggedIn,
                   sel, shown, job, ev, event_data>>

SpecLoad == InitLoad /\ [][Load]_vars

(* ------------------------- the recurrence code ------------------------- *)

MaxYearSpan == 1

TestYear == 2025

\* the years the dates are drawn from; the first one is a leap year
Years == (TestYear - 1)..(TestYear + MaxYearSpan - 1)

is_leap(y) == (y % 4 = 0) /\ ((y % 100 # 0) \/ (y % 400 = 0))

days_in_month(y, m) ==
    IF m = 2 THEN (IF is_leap(y) THEN 29 ELSE 28)
    ELSE IF m \in {4, 6, 9, 11} THEN 30
    ELSE 31

\* date(y, m, d) accepts exactly the days of the calendar
Dates ==
    {[year |-> y, month |-> m, day |-> d] :
        y \in Years, m \in 1..12, d \in 1..31} \ 
    {dt \in [year : Years, month : 1..12, day : 1..31] :
        dt.day > days_in_month(dt.year, dt.month)}

days_before_year(y) ==
    (y - 1) * 365 + ((y - 1) \div 4) - ((y - 1) \div 100) + ((y - 1) \div 400)

RECURSIVE days_before_month(_, _)
days_before_month(y, m) ==
    IF m = 1 THEN 0 ELSE days_before_month(y, m - 1) + days_in_month(y, m - 1)

\* date.toordinal(): 0001-01-01 is day 1
toordinal(d) == days_before_year(d.year) + days_before_month(d.year, d.month) + d.day

\* date.weekday(): Monday is 0
weekday(d) == (toordinal(d) + 6) % 7

DigitChars == <<"0", "1", "2", "3", "4", "5", "6", "7", "8", "9">>

\* str(n) of an f-string, n >= 0
RECURSIVE Decimal(_)
Decimal(n) ==
    IF n < 10 THEN DigitChars[n + 1]
    ELSE Decimal(n \div 10) \o DigitChars[(n % 10) + 1]

ordinal_from_day_of_month(d) == (d.day \div 7) + 1

\* expected_ordinal = ((d.day - 1) // 7) + 1
expected_ordinal(d) == ((d.day - 1) \div 7) + 1

weekday_map == <<"MO", "TU", "WE", "TH", "FR", "SA", "SU">>

\* expected = f'BYDAY={expected_ordinal}{weekday_map[d.weekday()]};'
expected(d) == "BYDAY=" \o Decimal(expected_ordinal(d)) \o weekday_map[weekday(d) + 1] \o ";"

\* monthly_byday: the Nth occurrence of the weekday within its month, ordinal =
\* floor((day_of_month - 1) / 7) + 1, weekday code from the ordered set
\* {MO, TU, WE, TH, FR, SA, SU} indexed by the weekday (Monday = 0)
monthly_byday(d) ==
    LET ordinal == ((d.day - 1) \div 7) + 1
        codes == <<"MO", "TU", "WE", "TH", "FR", "SA", "SU">>
    IN "BYDAY=" \o Decimal(ordinal) \o codes[weekday(d) + 1] \o ";"

InitByday ==
    /\ AtRest
    /\ event_data \in Dates
    /\ result = NoResult

\* assert monthly_byday(d) == expected
MonthlyByday ==
    /\ result.op = "none"
    /\ result' = [NoResult EXCEPT !.op = "monthly_byday",
                                  !.value = monthly_byday(event_data)]
    /\ UNCHANGED <<workflowVars, event_data>>

SpecByday == InitByday /\ [][MonthlyByday]_vars

(* --------------- one reviewer on a sheet that holds responses ---------- *)

Reviewer == "s1"

\* the reviewer is logged in; the sheet holds responses, some of them already
\* handled
InitTarget ==
    /\ secrets = [spreadsheet_id |-> TRUE, calendar_id |-> TRUE]
    /\ authSheet = {user[Reviewer].email}
    /\ headers = FormColumns \o <<STATUS, LAST_UPDATED_BY>>
    /\ \E n \in 1..MaxQueue : \E sts \in [1..n -> {Pending, Ignored, AddedToCalendar}] :
        sheet = [i \in 1..n |-> Row(i - 1, sts[i])]
    /\ dataCache = NoData
    /\ authCache = NoAuth
    /\ calendar = [i \in Indices |-> 0]
    /\ loggedIn = [s \in Sessions |-> s = Reviewer]
    /\ sel = [s \in Sessions |-> <<>>]
    /\ shown = [s \in Sessions |-> <<>>]
    /\ job = [s \in Sessions |-> Idle]
    /\ ev = Ev("", "init")
    /\ event_data = ValidAllDay
    /\ result = NoResult

StepsTarget ==
    \/ \E p \in Positions(Reviewer) : Select(Reviewer, p)
    \/ \E d \in EditChoices : ClickIgnore(Reviewer, d)
    \/ \E d \in EditChoices : ClickAdd(Reviewer, d)
    \/ UpdateStatusCell(Reviewer)
    \/ UpdateActorCell(Reviewer)
    \/ ClickRefresh(Reviewer)
    \/ ExpireData

SpecTarget == InitTarget /\ [][StepsTarget]_vars

(* ---------------------- ensure_status_columns alone -------------------- *)

MaxHeaders == 3

HeaderChoices == {"Timestamp", EVENT_NAME, STATUS, LAST_UPDATED_BY}

\* any header row, the read cache filled
InitEnsure ==
    /\ secrets = [spreadsheet_id |-> TRUE, calendar_id |-> TRUE]
    /\ authSheet = Emails
    /\ \E n \in 0..MaxHeaders : headers \in [1..n -> HeaderChoices]
    /\ sheet = <<>>
    /\ dataCache = [valid |-> TRUE, val |-> <<>>]
    /\ authCache = [valid |-> TRUE, val |-> Emails]
    /\ calendar = [i \in Indices |-> 0]
    /\ loggedIn = [s \in Sessions |-> FALSE]
    /\ sel = [s \in Sessions |-> <<>>]
    /\ shown = [s \in Sessions |-> <<>>]
    /\ job = [s \in Sessions |-> Idle]
    /\ ev = Ev("", "init")
    /\ event_data = ValidAllDay
    /\ result = NoResult

\* main() line 558: ensure_status_columns(spreadsheet_id)
Ensure ==
    /\ \E k \in 0..Len(missing_cols(headers)) :
        LET ens == ensure_status_columns(headers, k)
        IN /\ headers' = ens.headers
           /\ dataCache' = IF ens.cleared THEN NoData ELSE dataCache
           /\ authCache' = IF ens.cleared THEN NoAuth ELSE authCache
           /\ result' = [NoResult EXCEPT !.op = ens.outcome]
    /\ UNCHANGED <<secrets, sheet, authSheet, calendar, loggedIn, sel, shown, job, ev,
                   event_data>>

SpecEnsure == InitEnsure /\ [][Ensure]_vars

(* ------------------------- the editor on a row ------------------------- *)

\* The values of selected_row.to_dict() and of the widgets, each with its Python
\* type: a str of the sheet (Blank is ''), a date, a time, None.
Blank == <<"str">>
StrOf(x) == <<"str", x>>
DateOf(d) == <<"date", d>>
TimeOf(t) == <<"time", t>>
None == <<"none">>

\* a widget the reviewer did not touch returns its value= argument
Keep == <<"keep">>
widget(choice, value) == IF choice = Keep THEN value ELSE choice

\* show_field_editor(field_name, event_data): the dict is updated in place
show_field_editor(field_name, data, w) ==
    LET value == data[field_name]
    IN IF field_name \in {START_TIME, END_TIME} THEN
           \* '' becomes None, a str becomes pd.to_datetime(value).time()
           [data EXCEPT ![field_name] =
               widget(w[field_name], IF value = Blank THEN None ELSE TimeOf(value[2]))]
       ELSE IF field_name \in {EVENT_DATE, END_DATE} THEN
           \* an empty End Date takes the Event Date, else datetime.strptime(str(value))
           [data EXCEPT ![field_name] =
               widget(w[field_name],
                      IF field_name = END_DATE /\ value = Blank THEN data[EVENT_DATE]
                      ELSE DateOf(value[2]))]
       ELSE [data EXCEPT ![field_name] = widget(w[field_name], value)]

\* the order in which show_event_editor calls show_field_editor
EditorOrder ==
    <<EVENT_NAME, LOCATION, DESCRIPTION, ORG_NAME, EVENT_TYPE, EMAIL, FEE,
      EVENT_DATE, START_TIME, END_DATE, END_TIME>>

RECURSIVE edit_fields(_, _, _)
edit_fields(data, w, n) ==
    IF n = 0 THEN data
    ELSE show_field_editor(EditorOrder[n], edit_fields(data, w, n - 1), w)

show_event_editor_in_place(source, w) ==
    LET edited == edit_fields(source, w, Len(EditorOrder))
    IN [source |-> edited, edited |-> edited]

\* show_event_editor(event_data): `event_data = event_data.copy()`, the editors work
\* on the copy; source is the caller's dict after the call
show_event_editor(source, w) ==
    LET copy == source
    IN [source |-> source, edited |-> edit_fields(copy, w, Len(EditorOrder))]

\* the edited dict as the field map validate_event_data, format_description and
\* add_event_to_calendar read
AsFieldMap(edited) ==
    [f \in AllFields |->
        LET v == edited[f]
        IN IF f \in TextFields THEN (IF v = Blank THEN "" ELSE v[2])
           ELSE IF f = EMAIL THEN (IF v = Blank THEN <<>> ELSE v[2])
           ELSE IF f \in {EVENT_DATE, END_DATE} THEN v[2]
           ELSE IF v = None THEN <<>> ELSE <<v[2]>>]

\* the rows selected_row.to_dict() can give: the cells of a sheet row as strings
SourceRows ==
    {[f \in AllFields |->
         IF f = EVENT_NAME THEN name
         ELSE IF f \in TextFields THEN StrOf("x")
         ELSE IF f = EMAIL THEN StrOf(GoodEmail)
         ELSE IF f = EVENT_DATE THEN StrOf(d1)
         ELSE IF f = END_DATE THEN d2
         ELSE IF f = START_TIME THEN t1
         ELSE t2] :
        name \in {Blank, StrOf("x")},
        d1 \in Days,
        d2 \in {Blank} \cup {StrOf(d) : d \in Days},
        t1 \in {Blank} \cup {StrOf(t) : t \in 1..MaxTime},
        t2 \in {Blank} \cup {StrOf(t) : t \in 1..MaxTime}}

Untouched == [f \in AllFields |-> Keep]

\* what the reviewer has typed into the widgets
WidgetStates ==
    {Untouched,
     [Untouched EXCEPT ![EVENT_NAME] = StrOf("y")],
     [Untouched EXCEPT ![EVENT_NAME] = Blank],
     [Untouched EXCEPT ![START_TIME] = None, ![END_TIME] = None]}
    \cup {[Untouched EXCEPT ![END_DATE] = DateOf(d)] : d \in Days}

InitEdit ==
    /\ AtRest
    /\ event_data \in SourceRows
    /\ result = NoResult

\* main() line 599: edited_data = show_event_editor(selected_row.to_dict())
Edit ==
    /\ \E w \in WidgetStates :
        LET ed == show_event_editor(event_data, w)
        IN /\ event_data' = ed.source
           /\ result' = [NoResult EXCEPT !.op = "edit", !.value = ed.edited]
    /\ UNCHANGED workflowVars

\* main() line 600: validate_event_data(edited_data) reads the dict
ValidateEdited ==
    /\ result.op = "edit"
    /\ result' = [result EXCEPT !.op = "validate",
                                !.valid = validate_event_data(AsFieldMap(result.value)),
                                !.warnings = warnings(AsFieldMap(result.value))]
    /\ UNCHANGED <<workflowVars, event_data>>

\* main() line 604: format_description(edited_data) reads the dict
Format ==
    /\ result.op = "validate"
    /\ result.valid
    /\ result' = [result EXCEPT !.op = "format",
                                !.warnings = format_description(AsFieldMap(result.value))]
    /\ UNCHANGED <<workflowVars, event_data>>

NextEdit == Edit \/ ValidateEdited \/ Format

SpecEdit == InitEdit /\ [][NextEdit]_vars

(* ================================ claims =============================== *)

Listed(df, idx) == \E k \in 1..Len(df) : df[k].idx = idx

\* C6: a read that reaches the store returns exactly the rows whose Status is neither
\* 'Ignored' nor 'Added to Calendar', in store order, each under its record index and
\* with its own content; an empty sheet gives an empty list.
C6_LoadReturnsNonTerminalRows ==
    result.op = "miss" =>
        LET df == result.value
        IN /\ \A k \in 1..Len(df) :
                  /\ df[k].idx \in 0..(Len(sheet) - 1)
                  /\ sheet[df[k].idx + 1].status \notin Terminal
                  /\ df[k].data = sheet[df[k].idx + 1].data
           /\ \A i \in 1..Len(sheet) :
                  sheet[i].status \notin Terminal => Listed(df, i - 1)
           /\ \A k \in 1..Len(df) : \A l \in 1..Len(df) :
                  k < l => df[k].idx < df[l].idx
           /\ (Len(sheet) = 0 => df = <<>>)

\* a row is kept behind a filtered one: its index is not its position
C6_Witness ==
    /\ result.op = "miss"
    /\ Len(sheet) = MaxSheetRows
    /\ sheet[1].status = Ignored
    /\ sheet[2].status = AddedToCalendar
    /\ sheet[3].status = Pending
    /\ result.value = <<[idx |-> 2, data |-> sheet[3].data]>>

Validated == result.op \in {"validate", "add"}

NoBlockingError(data) ==
    /\ \A f \in TextFields : data[f] # ""
    /\ data[EMAIL] # <<>>
    /\ ~(data[END_DATE] < data[EVENT_DATE])
    /\ (data[END_DATE] = data[EVENT_DATE]
            /\ (data[START_TIME] # <<>> \/ data[END_TIME] # <<>>))
        => /\ data[START_TIME] # <<>>
           /\ data[END_TIME] # <<>>
           /\ ~(data[END_TIME][1] < data[START_TIME][1])
    /\ email_pattern(data[EMAIL])

\* C7: validate_event_data returns True exactly when every required field is
\* non-empty, the end date is not before the event date, on a one-day event with a
\* time set both times are set and the end time is not before the start time, and
\* the email matches the pattern; a warning does not change the result.
C7_ValidIffNoBlockingError ==
    Validated => (result.valid <=> NoBlockingError(event_data))

\* accepted although a warning was raised
C7_Witness ==
    /\ result.op = "validate"
    /\ result.valid
    /\ Len(result.warnings) > 0

ExactlyOneTime(data) == (data[START_TIME] = <<>>) # (data[END_TIME] = <<>>)

\* C8 as stated: a submission with exactly one of start time and end time set is
\* rejected whatever its dates are.
C8_OneTimeRejectedWhateverDates ==
    (Validated /\ ExactlyOneTime(event_data)) => ~result.valid

\* C8 amended: a submission with exactly one of start time and end time set is
\* rejected when its end date is not after its event date.
C8_OneTimeRejectedUnlessMultiDay ==
    (Validated /\ ExactlyOneTime(event_data)
        /\ ~(event_data[END_DATE] > event_data[EVENT_DATE]))
    => ~result.valid

\* rejected for the missing time alone
C8_Witness ==
    /\ result.op = "validate"
    /\ ExactlyOneTime(event_data)
    /\ event_data[END_DATE] = event_data[EVENT_DATE]
    /\ \A f \in TextFields : event_data[f] # ""
    /\ email_pattern(event_data[EMAIL])
    /\ ~result.valid

WithoutTimes(data) == [data EXCEPT ![START_TIME] = <<>>, ![END_TIME] = <<>>]

\* C9: for an accepted field map whose end date is after its event date, a set time
\* only raises a warning and the event submitted is the whole-day event that the
\* same map without times gives.
C9_TimesIgnoredForMultiDay ==
    (result.op = "add" /\ event_data[END_DATE] > event_data[EVENT_DATE])
    => /\ (event_data[START_TIME] # <<>> \/ event_data[END_TIME] # <<>>)
              => Len(result.warnings) > 0
       /\ result.outcome # "raised"
       /\ result.value = build_event(WithoutTimes(event_data)).event

\* C10: for a validated field map add_event_to_calendar returns a boolean; the event
\* is date-only from event date to end date when the start time is absent, and has
\* America/Chicago date+time stamps otherwise.
C10_DateOnlyOrTimedAndBoolean ==
    result.op = "add"
    => /\ result.outcome \in {"true", "false"}
       /\ Len(result.value) = 1
       /\ IF event_data[START_TIME] = <<>>
              THEN /\ result.value[1].start =
                          [kind |-> "date", value |-> IsoDate(event_data[EVENT_DATE]),
                           timeZone |-> ""]
                   /\ result.value[1].end =
                          [kind |-> "date", value |-> IsoDate(event_data[END_DATE]),
                           timeZone |-> ""]
              ELSE /\ result.value[1].start.kind = "dateTime"
                   /\ result.value[1].start.timeZone = "America/Chicago"
                   /\ result.value[1].end.kind = "dateTime"
                   /\ result.value[1].end.timeZone = "America/Chicago"

(* ------------------------- claims on the workflow ---------------------- *)

\* the step completes an update_submission_status call of s after its Status write
ReturnsAfterStatusWrite(s) == job[s].pc = "update_actor" /\ job'[s].pc = "idle"

\* C1: when update_submission_status has written the Status cell of a row and
\* returns, however it returns, a load_spreadsheet_data call that follows at once
\* does not list that row as pending any more.
C1_UpdateThenLoadIsFresh ==
    [][\A s \in Sessions :
           ReturnsAfterStatusWrite(s)
           => ~Listed(load_spreadsheet_data(dataCache', headers', sheet', TRUE).ret,
                      job[s].row_idx)]_vars

\* the step starts an update_submission_status call of s
StartsUpdate(s) == job[s].pc = "idle" /\ job'[s].pc = "update_status"

\* the step writes the Status cell for s
WritesStatus(s) == job[s].pc = "update_status" /\ job'[s].pc = "update_actor"

\* C2: 'Added to Calendar' is written only by a script run whose calendar insert
\* succeeded; a script run in which add_event_to_calendar fails writes no cell and
\* leaves the row as it was.
C2_AddedOnlyAfterCalendarSuccess ==
    [][/\ \A s \in Sessions :
              (StartsUpdate(s) /\ job'[s].status = AddedToCalendar)
              => /\ job'[s].cal = "true"
                 /\ calendar'[job'[s].row_idx] = calendar[job'[s].row_idx] + 1
       /\ \A i \in DOMAIN sheet :
              (sheet'[i].status = AddedToCalendar /\ sheet[i].status # AddedToCalendar)
              => \E s \in Sessions :
                     /\ WritesStatus(s)
                     /\ job[s].row_idx = i - 1
                     /\ job[s].cal = "true"
       /\ ev'.stage \in {"add_false", "add_raised"}
              => /\ sheet' = sheet
                 /\ calendar' = calendar
                 /\ job' = job]_vars

\* the status has just been written after a successful insert
C2_Witness ==
    /\ ev.stage = "status_cell"
    /\ job[ev.s].status = AddedToCalendar
    /\ sheet[job[ev.s].row_idx + 1].status = AddedToCalendar
    /\ calendar[job[ev.s].row_idx] > 0

\* C3: a script run whose field map fails validation writes no status, creates no
\* calendar event and leaves the selection in place; every status write and every
\* calendar insert belongs to a script run whose field map passed validation.
C3_ValidationGatesActions ==
    [][/\ ev'.stage = "invalid"
              => /\ sheet' = sheet
                 /\ calendar' = calendar
                 /\ job' = job
                 /\ sel'[ev'.s] # <<>>
       /\ \A s \in Sessions : StartsUpdate(s) => job'[s].valid
       /\ \A s \in Sessions : WritesStatus(s) => job[s].valid
       /\ calendar' # calendar
              => \E s \in Sessions : StartsUpdate(s) /\ job'[s].valid]_vars

\* a script run stopped at the failed validation
C3_Witness ==
    /\ ev.stage = "invalid"
    /\ job[ev.s].pc = "idle"
    /\ sel[ev.s] # <<>>

\* C4: a session that is not logged in can only log in; every step of a logged-in
\* user who is not on the authorized list is a rejection that reads no submissions,
\* writes nothing and creates nothing (logging out apart).
C4_UnlistedUserIsInert ==
    [][\A s \in Sessions :
           ev'.s = s
           => /\ ~loggedIn[s] => ev'.stage = "login"
              /\ (loggedIn[s] /\ secrets.spreadsheet_id
                      /\ user[s].email \notin authSheet)
                 => /\ ev'.stage \in {"rejected", "logout"}
                    /\ dataCache' = dataCache
                    /\ sheet' = sheet
                    /\ calendar' = calendar]_vars

\* C5: once the Status of a row is Ignored or Added to Calendar no step writes a
\* status to that row again.
C5_TerminalStatusIsFinal ==
    [][\A s \in Sessions :
           WritesStatus(s)
           => sheet[job[s].row_idx + 1].status \notin Terminal]_vars

(* ------------------------ claim on the recurrence code ----------------- *)

\* how many days of the month up to d fall on the weekday of d
Occurrence(d) ==
    Cardinality({k \in 1..d.day : weekday([d EXCEPT !.day = k]) = weekday(d)})

ReviewStages ==
    {"empty", "list", "reviewing", "editing", "invalid", "index_error", "ignore",
     "add_true", "add_false", "add_raised"}

InEditor(s) == shown[s][sel[s][1] + 1]

\* C13: the sheet row whose Status and Last Updated By cells an 'ignore' or 'add to
\* calendar' action writes is the row of the submission the reviewer had selected
\* and saw in the editor, sheet row = record index + 2, however many handled rows
\* precede it and also when the list was reloaded since the selection.
C13_WritesTheSelectedRow ==
    [][\A s \in Sessions :
           \* the click that starts the write targets the record in the editor
           /\ (job[s].pc = "idle" /\ job'[s].pc = "update_status")
              => /\ Len(sel[s]) > 0
                 /\ sel[s][1] + 1 <= Len(shown[s])
                 /\ job'[s].row_idx = InEditor(s).idx
                 /\ sheet[InEditor(s).idx + 1].data = InEditor(s).data
                 /\ \A i \in Indices : calendar'[i] # calendar[i] => i = InEditor(s).idx
           \* the cell writes change sheet row record index + 2 and only its
           \* Status and Last Updated By cells
           /\ (job[s].pc \in {"update_status", "update_actor"})
              => \A n \in DOMAIN sheet :
                     sheet'[n] # sheet[n]
                     => /\ n + 1 = job[s].row_idx + 2
                        /\ sheet'[n].data = sheet[n].data]_vars

\* the second response is ignored by the reviewer while the first one, handled
\* before, is filtered out of the list
C13_Witness ==
    /\ Len(sheet) >= 2
    /\ sheet[1].status = AddedToCalendar
    /\ sheet[1].lub = ""
    /\ sheet[2].status = Ignored
    /\ sheet[2].lub = user[Reviewer].name
    /\ job[Reviewer].pc = "idle"

(* ---------------------- claims on the read cache ----------------------- *)

\* C14: only successful reads are memoized: whenever a step fills an entry of the
\* read cache, the stored value is what the store holds, so a read that failed
\* leaves the entry empty and the next call queries the store again.
C14_OnlySuccessfulReadsMemoized ==
    [][/\ (~authCache.valid /\ authCache'.valid) => authCache'.val = authSheet
       /\ (~dataCache.valid /\ dataCache'.valid)
          => dataCache'.val = FilterFrom(get_all_records(sheet), 1)]_vars

(* ------------------- claims on the status columns ---------------------- *)

\* C15: every status write records the acting identity: when
\* update_submission_status of a session returns after its Status write and the row
\* still holds the status it wrote, the Last Updated By cell of the row holds the
\* name of that session's user, also after a write that failed half-way and with
\* the cell writes of two sessions interleaved.
C15_StatusCarriesItsWriter ==
    [][\A s \in Sessions :
           (job[s].pc = "update_actor" /\ job'[s].pc = "idle"
                /\ sheet'[job[s].row_idx + 1].status = job[s].status)
           => sheet'[job[s].row_idx + 1].lub = user[s].name]_vars

\* those of 'Status' and 'Last Updated By' that a header row lacks, in that order
Lacking(hdrs) ==
    (IF \E c \in DOMAIN hdrs : hdrs[c] = "Status" THEN <<>> ELSE <<"Status">>)
    \o (IF \E c \in DOMAIN hdrs : hdrs[c] = "Last Updated By" THEN <<>>
        ELSE <<"Last Updated By">>)

\* C16: ensure_status_columns appends, after the existing headers, exactly those of
\* 'Status' and 'Last Updated By' that are missing, changes no existing header cell,
\* and with both present writes nothing, clears no cache and does not rerun, so a
\* call after a call that went through changes nothing.
C16_EnsureStatusColumnsIdempotent ==
    [][/\ SubSeq(headers', 1, Len(headers)) = headers
       /\ Lacking(headers) = <<>>
          => /\ result'.op = "return"
             /\ headers' = headers
             /\ dataCache' = dataCache
             /\ authCache' = authCache
       /\ result'.op = "return" => Lacking(headers) = <<>>
       /\ result'.op = "rerun"
          => /\ headers' = headers \o Lacking(headers)
             /\ Lacking(headers') = <<>>
             /\ \A k \in 0..2 :
                    ensure_status_columns(headers', k)
                        = [outcome |-> "return", headers |-> headers', cleared |-> FALSE]
    ]_vars

\* 'Status' was appended to a header row that already had 'Last Updated By'
C16_Witness ==
    /\ result.op = "rerun"
    /\ Len(headers) >= 2
    /\ headers[Len(headers)] = STATUS
    /\ \E c \in 1..(Len(headers) - 1) : headers[c] = LAST_UPDATED_BY
    /\ ~dataCache.valid

\* C17: explicit refresh re-synchronises the view: the refresh action empties the
\* whole read cache, and the next render of that session uses a submissions list and
\* an authorized-user set that were read from the store and hold its content.
C17_RefreshResynchronises ==
    [][\A s \in Sessions :
           /\ (ev'.s = s /\ ev'.stage = "refresh")
              => (dataCache' = NoData /\ authCache' = NoAuth)
           /\ (ev = Ev(s, "refresh") /\ ev'.s = s /\ job[s].pc = "idle"
                   /\ ev'.stage \notin {"refresh", "logout"})
              => /\ authCache'.valid => authCache'.val = authSheet
                 /\ dataCache'.valid
                    => dataCache'.val = FilterFrom(get_all_records(sheet), 1)
                 /\ ev'.stage \in {"list", "reviewing", "editing"}
                    => shown'[s] = FilterFrom(get_all_records(sheet), 1)]_vars

(* ------------------------ claim on the calendar ------------------------ *)

\* C18: at most one calendar event is created per submission: the calendar create
\* call succeeds at most once for a given store row, over any sequence of actions of
\* the sessions.
C18_AtMostOneEventPerRow ==
    \A i \in Indices : calendar[i] <= 1

(* -------------------------- claim on the editor ------------------------ *)

\* C19: editing never alters its source: no edit, validate or format step changes
\* the dict of the selected row, the cached submissions list or the sheet.
C19_EditingLeavesTheSourceAlone ==
    [][/\ event_data' = event_data
       /\ dataCache' = dataCache
       /\ sheet' = sheet]_vars

\* a renamed event went through the editor, the validator and the formatter, and
\* the source row still has its name
C19_Witness ==
    /\ result.op = "format"
    /\ result.value[EVENT_NAME] = StrOf("y")
    /\ event_data[EVENT_NAME] = StrOf("x")

====
